---- MODULE Spec2Model ----
(***************************************************************************)
(* A model of the tindex postings store: the skiplist cursor over a KV     *)
(* bucket, batched Append over the KV store and the paged blob store, the  *)
(* skipping iterator, and the Intersect combinator.                        *)
(*                                                                         *)
(* The KV store (bolt) and the blob store (pagebuf) are libraries: a read  *)
(* transaction is a snapshot taken at Begin, a write transaction's changes *)
(* become visible at Commit and are dropped by Rollback, the blob store's  *)
(* page-id allocator included.                                             *)
(***************************************************************************)
EXTENDS Integers, Sequences, FiniteSets, TLC

\* ------------------------------------------------------------------ bounds

MaxId == 4          \* IDs appended are 1..MaxId
MaxBatch == 3       \* IDs in one Append call, over all its keys
MaxAppends == 2     \* Append calls in one behaviour
MaxIters == 1       \* Iter calls in one behaviour
MaxConcBatch == 2   \* IDs in one Append call that runs beside a reader
PageCap == 2        \* IDs a page holds before its cursor reports errPageFull
MaxCloses == 2      \* Close calls on one iterator
MaxEnsures == 3     \* ensureLabel and ensureSeries calls in one behaviour
MaxLabels == 2      \* labels in one label-set
MaxMerged == 3      \* iterators handed to one Merge
MaxIterBatch == 2   \* IDs in one Append call that fills the store for the iterators

\* math.MaxUint64 (src/postings.go:195), held to the integers the checker
\* computes with: larger than every ID and every skiplist key.
MaxUint64 == 2147483647

Keys == {1, 2}
Ids == 1..MaxId

nil == "nil"
EOF == "EOF"
errNotFound == "NotFound"
errOutOfOrder == "OutOfOrder"
errPageFull == "PageFull"
errGetPage == "GetPage"
errIO == "IO"
errLabel == "LabelNotFound"
errPanic == "panic"

\* ------------------------------------------------------------- page codec
\* A page is the sequence of IDs its delta encoding holds.

PageInit(id) == <<id>>

\* pageCursor.append: errPageFull iff the page has no room for another delta,
\* errOutOfOrder for an ID that is not above the page's last one.
PageAppend(pg, id) ==
    IF Len(pg) >= PageCap THEN [err |-> errPageFull, pg |-> pg]
    ELSE IF pg[Len(pg)] >= id THEN [err |-> errOutOfOrder, pg |-> pg]
    ELSE [err |-> nil, pg |-> Append(pg, id)]

\* pageCursor.Next: the next ID of the page, io.EOF at its end.
PageNext(ids, pos) ==
    IF pos < Len(ids) THEN [pos |-> pos + 1, v |-> ids[pos + 1], e |-> nil]
    ELSE [pos |-> pos, v |-> 0, e |-> EOF]

\* pageCursor.Seek: advance Next until an ID >= id.
RECURSIVE PageSeekFrom(_, _, _)
PageSeekFrom(ids, pos, id) ==
    LET r == PageNext(ids, pos)
    IN  IF r.e # nil \/ r.v >= id THEN r ELSE PageSeekFrom(ids, r.pos, id)

PageSeek(ids, id) == PageSeekFrom(ids, 0, id)

\* ------------------------------------------------------------- blob store
\* The pages of a blob-store transaction: page id p is pb[p].

PbGet(pb, pid) ==
    IF pid \in 1..Len(pb) THEN [ok |-> TRUE, data |-> pb[pid]]
    ELSE [ok |-> FALSE, data |-> <<>>]

PbAdd(pb, data) == [pb |-> Append(pb, data), pid |-> Len(pb) + 1]

PbSet(pb, pid, data) == [pb EXCEPT ![pid] = data]

\* ---------------------------------------------------------- skiplist bucket
\* A bucket is its entries <<last id, page id>> in key order.

BktPut(b, d, p) ==
    SelectSeq(b, LAMBDA e : e[1] < d) \o << <<d, p>> >> \o
    SelectSeq(b, LAMBDA e : e[1] > d)

\* bolt Cursor.Seek: the index of the first entry with key >= k, 0 if none.
CursorSeek(b, k) ==
    LET S == {i \in 1..Len(b) : b[i][1] >= k}
    IN  IF S = {} THEN 0 ELSE CHOOSE i \in S : \A j \in S : i <= j

\* boltSkiplistCursor.seek: c is the cursor's index afterwards.
SlSeek(b, k) ==
    LET i == CursorSeek(b, k)
        j == IF i = 0 THEN Len(b) ELSE i
    IN  IF j = 0 THEN [c |-> 0, did |-> 0, pid |-> 0, err |-> EOF]
        ELSE IF b[j][1] > k
             THEN IF j > 1
                  THEN [c |-> j - 1, did |-> b[j - 1][1], pid |-> b[j - 1][2], err |-> nil]
                  ELSE [c |-> 1, did |-> b[j][1], pid |-> b[j][2], err |-> nil]
             ELSE [c |-> j, did |-> b[j][1], pid |-> b[j][2], err |-> nil]

\* boltSkiplistCursor.next
SlNext(b, c) ==
    IF c < Len(b) THEN [c |-> c + 1, did |-> b[c + 1][1], pid |-> b[c + 1][2], err |-> nil]
    ELSE [c |-> c, did |-> 0, pid |-> 0, err |-> EOF]

\* boltSkiplistCursor.append
SlAppend(b, d, p) ==
    IF Len(b) > 0 /\ b[Len(b)][1] >= d THEN [err |-> errOutOfOrder, b |-> b]
    ELSE [err |-> nil, b |-> BktPut(b, d, p)]

\* The boltSkiplistCursor of bolt.go, lines 185-221. Its seek returns
\* errNotFound on an empty bucket and when the entry found is above k and has
\* no predecessor, where bolt's Prev has moved the cursor before the first
\* entry (c = 0).
SlSeekBolt(b, k) ==
    LET i == CursorSeek(b, k)
        j == IF i = 0 THEN Len(b) ELSE i
    IN  IF j = 0 THEN [c |-> 0, did |-> 0, pid |-> 0, err |-> errNotFound]
        ELSE IF b[j][1] > k
             THEN IF j > 1
                  THEN [c |-> j - 1, did |-> b[j - 1][1], pid |-> b[j - 1][2], err |-> nil]
                  ELSE [c |-> 0, did |-> 0, pid |-> 0, err |-> errNotFound]
             ELSE [c |-> j, did |-> b[j][1], pid |-> b[j][2], err |-> nil]

\* Its next: errNotFound at the end of the bucket.
SlNextBolt(b, c) ==
    IF c < Len(b) THEN [c |-> c + 1, did |-> b[c + 1][1], pid |-> b[c + 1][2], err |-> nil]
    ELSE [c |-> c, did |-> 0, pid |-> 0, err |-> errNotFound]

\* Its append, line 220: Put(encodeUint64(p), encodeUint64(p)).
SlAppendBolt(b, d, p) ==
    IF Len(b) > 0 /\ b[Len(b)][1] >= d THEN [err |-> errOutOfOrder, b |-> b]
    ELSE [err |-> nil, b |-> BktPut(b, p, p)]

\* plainSkiplistIterator.next on the sorted entries b of the map: pos is the
\* 0-based index it.pos.
PlainSlNext(b, pos) ==
    IF pos >= Len(b) THEN [pos |-> pos, did |-> 0, pid |-> 0, err |-> EOF]
    ELSE [pos |-> pos + 1, did |-> b[pos + 1][1], pid |-> b[pos + 1][2], err |-> nil]

\* plainSkiplistIterator.seek: sort.Search yields len(keys) when no key is
\* >= id, and it.keys[pos] then panics with an index out of range.
PlainSlSeek(b, id) ==
    LET pos == Cardinality({i \in 1..Len(b) : b[i][1] < id})
    IN  IF pos > 0 /\ pos >= Len(b) THEN [pos |-> pos, did |-> 0, pid |-> 0, err |-> errPanic]
        ELSE IF pos > 0 /\ b[pos + 1][1] > id THEN PlainSlNext(b, pos - 1)
        ELSE PlainSlNext(b, pos)

\* ---------------------------------------------------------- postingsAppend
\* A write transaction pair is [kv, pb]: kv.has is the set of keys that have
\* a skiplist bucket, kv.sl[k] the bucket of k. The state of one key's batch
\* is s = [kv, pb, pg, pid, lastID, err]: pg the page being appended to and
\* pid its page id, 0 for a page that is not stored yet.

\* StorePage without the pbtx.Set of lines 239 and 265: a page that was
\* stored before is not written back.
StorePageNoSet(key, s, d) ==
    IF s.pid = 0
    THEN LET a == PbAdd(s.pb, s.pg)
             e == SlAppend(s.kv.sl[key], d, a.pid)
         IN  IF e.err # nil THEN [s EXCEPT !.pb = a.pb, !.pid = a.pid, !.err = e.err]
             ELSE [s EXCEPT !.pb = a.pb, !.pid = a.pid, !.kv.sl[key] = e.b]
    ELSE s

\* StorePage with the pbtx.Set of lines 239 and 265 writing to the first
\* page of the blob store instead of page s.pid.
StorePageSetFirst(key, s, d) ==
    IF s.pid = 0
    THEN LET a == PbAdd(s.pb, s.pg)
             e == SlAppend(s.kv.sl[key], d, a.pid)
         IN  IF e.err # nil THEN [s EXCEPT !.pb = a.pb, !.pid = a.pid, !.err = e.err]
             ELSE [s EXCEPT !.pb = a.pb, !.pid = a.pid, !.kv.sl[key] = e.b]
    ELSE [s EXCEPT !.pb = PbSet(s.pb, 1, s.pg)]

\* Lines 229-242 and 255-268: store away page s.pg, keyed d when it is new.
StorePage(key, s, d) ==
    IF s.pid = 0
    THEN LET a == PbAdd(s.pb, s.pg)
             e == SlAppend(s.kv.sl[key], d, a.pid)
         IN  IF e.err # nil THEN [s EXCEPT !.pb = a.pb, !.pid = a.pid, !.err = e.err]
             ELSE [s EXCEPT !.pb = a.pb, !.pid = a.pid, !.kv.sl[key] = e.b]
    ELSE [s EXCEPT !.pb = PbSet(s.pb, s.pid, s.pg)]

\* The loop of lines 223-253 without the branch of line 226: errPageFull is
\* returned like every other error of the page cursor.
RECURSIVE AppendLoopNoRollover(_, _, _, _)
AppendLoopNoRollover(key, ids, i, s) ==
    IF i > Len(ids) THEN s
    ELSE LET id == ids[i]
             s1 == [s EXCEPT !.lastID = id]
             r == PageAppend(s.pg, id)
         IN  IF r.err # nil THEN [s1 EXCEPT !.err = r.err]
             ELSE AppendLoopNoRollover(key, ids, i + 1, [s1 EXCEPT !.pg = r.pg])

\* The loop of lines 223-253 from index i on.
RECURSIVE AppendLoop(_, _, _, _)
AppendLoop(key, ids, i, s) ==
    IF i > Len(ids) THEN s
    ELSE LET id == ids[i]
             s1 == [s EXCEPT !.lastID = id]
             r == PageAppend(s.pg, id)
         IN  IF r.err = errPageFull
             THEN LET s2 == StorePage(key, s1, id)
                  IN  IF s2.err # nil THEN s2
                      ELSE AppendLoop(key, ids, i + 1,
                                      [s2 EXCEPT !.pid = 0, !.pg = PageInit(id)])
             ELSE IF r.err # nil THEN [s1 EXCEPT !.err = r.err]
             ELSE AppendLoop(key, ids, i + 1, [s1 EXCEPT !.pg = r.pg])

\* Lines 254-270: save the last page written to.
SaveLast(key, s) == IF s.err # nil THEN s ELSE StorePage(key, s, s.lastID)

\* postingsStore.postingsAppend on transaction pair tx; the result is
\* [kv, pb, err].
PostingsAppend(tx, key, ids) ==
    IF Len(ids) = 0 THEN [kv |-> tx.kv, pb |-> tx.pb, err |-> nil]
    ELSE LET kv1 == [tx.kv EXCEPT !.has = @ \cup {key}]
             t == SlSeek(kv1.sl[key], MaxUint64)
             s0 == [kv |-> kv1, pb |-> tx.pb, pg |-> <<>>, pid |-> t.pid,
                    lastID |-> 0, err |-> nil]
             g == PbGet(tx.pb, t.pid)
             s == IF t.err = EOF
                  THEN SaveLast(key, AppendLoop(key, Tail(ids), 1,
                                                [s0 EXCEPT !.pg = PageInit(ids[1])]))
                  ELSE IF ~g.ok THEN [s0 EXCEPT !.err = errGetPage]
                  ELSE SaveLast(key, AppendLoop(key, ids, 1,
                                                [s0 EXCEPT !.pg = g.data]))
         IN  [kv |-> s.kv, pb |-> s.pb, err |-> s.err]

\* The loop of lines 147-151 over the keys in the order the map yields them:
\* the first error ends it.
RECURSIVE ApplyBatches(_, _, _)
ApplyBatches(tx, batches, order) ==
    IF order = <<>> THEN [kv |-> tx.kv, pb |-> tx.pb, err |-> nil]
    ELSE LET r == PostingsAppend(tx, Head(order), batches[Head(order)])
         IN  IF r.err # nil THEN r
             ELSE ApplyBatches(r, batches, Tail(order))

\* --------------------------------------------------------------- iterators
\* An iterator is a record tagged t. A skipping iterator holds its read
\* transactions' snapshots (b the key's bucket, pb the pages), the skiplist
\* cursor c and the page cursor (has: cur is not nil; ids, pos). A call's
\* result is [it, v, e]: the iterator afterwards, the value and the error.

RECURSIVE ItSeek(_, _)
RECURSIVE ItNext(_)

\* plainListIterator.Next
PlainNext(it) ==
    IF it.pos >= Len(it.list) THEN [it |-> it, v |-> 0, e |-> EOF]
    ELSE [it |-> [it EXCEPT !.pos = @ + 1], v |-> it.list[it.pos + 1], e |-> nil]

\* plainListIterator.Seek: pos is the number of elements below id.
PlainSeek(it, id) ==
    PlainNext([it EXCEPT !.pos = Cardinality({i \in 1..Len(it.list) : it.list[i] < id})])

\* iteratorStoreFunc of Iter, lines 110-118, followed by cur.Seek(id).
SkipLoad(it, pid, id) ==
    LET g == PbGet(it.pb, pid)
        r == PageSeek(g.data, id)
    IN  IF ~g.ok THEN [it |-> it, v |-> 0, e |-> errNotFound]
        ELSE [it |-> [it EXCEPT !.has = TRUE, !.ids = g.data, !.pos = r.pos],
              v |-> r.v, e |-> r.e]

\* skippingIterator.Seek
SkipSeek(it, id) ==
    LET s == SlSeek(it.b, id)
        it1 == [it EXCEPT !.c = s.c]
    IN  IF s.err # nil THEN [it |-> it1, v |-> 0, e |-> s.err]
        ELSE SkipLoad(it1, s.pid, id)

\* skippingIterator.Next
SkipNext(it) ==
    IF ~it.has THEN SkipSeek(it, 0)
    ELSE LET r == PageNext(it.ids, it.pos)
             n == SlNext(it.b, it.c)
             it1 == [it EXCEPT !.c = n.c]
         IN  IF r.e = nil THEN [it |-> [it EXCEPT !.pos = r.pos], v |-> r.v, e |-> nil]
             ELSE IF n.err # nil THEN [it |-> it1, v |-> 0, e |-> n.err]
             ELSE SkipLoad(it1, n.pid, 0)

\* intersectIterator.Next
RECURSIVE IntersectNext(_)
IntersectNext(it) ==
    IF it.e1 # nil THEN [it |-> it, v |-> 0, e |-> it.e1]
    ELSE IF it.e2 # nil THEN [it |-> it, v |-> 0, e |-> it.e2]
    ELSE IF it.v1 < it.v2
         THEN LET r == ItSeek(it.i1, it.v2)
              IN  IntersectNext([it EXCEPT !.i1 = r.it, !.v1 = r.v, !.e1 = r.e])
    ELSE IF it.v2 < it.v1
         THEN LET r == ItSeek(it.i2, it.v1)
              IN  IntersectNext([it EXCEPT !.i2 = r.it, !.v2 = r.v, !.e2 = r.e])
    ELSE LET r1 == ItNext(it.i1)
             r2 == ItNext(it.i2)
         IN  [it |-> [it EXCEPT !.i1 = r1.it, !.v1 = r1.v, !.e1 = r1.e,
                                !.i2 = r2.it, !.v2 = r2.v, !.e2 = r2.e],
              v |-> it.v1, e |-> nil]

\* intersectIterator.Seek
IntersectSeek(it, id) ==
    LET r1 == ItSeek(it.i1, id)
        r2 == ItSeek(it.i2, id)
    IN  IntersectNext([it EXCEPT !.i1 = r1.it, !.v1 = r1.v, !.e1 = r1.e,
                                 !.i2 = r2.it, !.v2 = r2.v, !.e2 = r2.e])

\* mergeIterator.Next with the last branch, lines 59-64, advancing i1 only.
MergeNextNoDedup(it) ==
    IF it.e1 = EOF /\ it.e2 = EOF THEN [it |-> it, v |-> 0, e |-> EOF]
    ELSE IF it.e1 # nil
         THEN IF it.e1 # EOF THEN [it |-> it, v |-> 0, e |-> it.e1]
              ELSE LET r == ItNext(it.i2)
                   IN  [it |-> [it EXCEPT !.i2 = r.it, !.v2 = r.v, !.e2 = r.e],
                        v |-> it.v2, e |-> nil]
    ELSE IF it.e2 # nil
         THEN IF it.e2 # EOF THEN [it |-> it, v |-> 0, e |-> it.e2]
              ELSE LET r == ItNext(it.i1)
                   IN  [it |-> [it EXCEPT !.i1 = r.it, !.v1 = r.v, !.e1 = r.e],
                        v |-> it.v1, e |-> nil]
    ELSE IF it.v2 < it.v1
         THEN LET r == ItNext(it.i2)
              IN  [it |-> [it EXCEPT !.i2 = r.it, !.v2 = r.v, !.e2 = r.e],
                   v |-> it.v2, e |-> nil]
    ELSE LET r == ItNext(it.i1)
         IN  [it |-> [it EXCEPT !.i1 = r.it, !.v1 = r.v, !.e1 = r.e],
              v |-> it.v1, e |-> nil]

\* mergeIterator.Next
MergeNext(it) ==
    IF it.e1 = EOF /\ it.e2 = EOF THEN [it |-> it, v |-> 0, e |-> EOF]
    ELSE IF it.e1 # nil
         THEN IF it.e1 # EOF THEN [it |-> it, v |-> 0, e |-> it.e1]
              ELSE LET r == ItNext(it.i2)
                   IN  [it |-> [it EXCEPT !.i2 = r.it, !.v2 = r.v, !.e2 = r.e],
                        v |-> it.v2, e |-> nil]
    ELSE IF it.e2 # nil
         THEN IF it.e2 # EOF THEN [it |-> it, v |-> 0, e |-> it.e2]
              ELSE LET r == ItNext(it.i1)
                   IN  [it |-> [it EXCEPT !.i1 = r.it, !.v1 = r.v, !.e1 = r.e],
                        v |-> it.v1, e |-> nil]
    ELSE IF it.v1 < it.v2
         THEN LET r == ItNext(it.i1)
              IN  [it |-> [it EXCEPT !.i1 = r.it, !.v1 = r.v, !.e1 = r.e],
                   v |-> it.v1, e |-> nil]
    ELSE IF it.v2 < it.v1
         THEN LET r == ItNext(it.i2)
              IN  [it |-> [it EXCEPT !.i2 = r.it, !.v2 = r.v, !.e2 = r.e],
                   v |-> it.v2, e |-> nil]
    ELSE LET r1 == ItNext(it.i1)
             r2 == ItNext(it.i2)
         IN  [it |-> [it EXCEPT !.i1 = r1.it, !.v1 = r1.v, !.e1 = r1.e,
                                !.i2 = r2.it, !.v2 = r2.v, !.e2 = r2.e],
              v |-> it.v1, e |-> nil]

\* mergeIterator.Seek
MergeSeek(it, id) ==
    LET r1 == ItSeek(it.i1, id)
        r2 == ItSeek(it.i2, id)
    IN  MergeNext([it EXCEPT !.i1 = r1.it, !.v1 = r1.v, !.e1 = r1.e,
                             !.i2 = r2.it, !.v2 = r2.v, !.e2 = r2.e])

\* Iterator.Seek and Iterator.Next, dispatched on the iterator's kind.
ItSeek(it, id) ==
    CASE it.t = "plain" -> PlainSeek(it, id)
      [] it.t = "skip" -> SkipSeek(it, id)
      [] it.t = "intersect" -> IntersectSeek(it, id)
      [] it.t = "merge" -> MergeSeek(it, id)

ItNext(it) ==
    CASE it.t = "plain" -> PlainNext(it)
      [] it.t = "skip" -> SkipNext(it)
      [] it.t = "intersect" -> IntersectNext(it)
      [] it.t = "merge" -> MergeNext(it)

\* newPlainListIterator on a sorted list.
NewPlainListIterator(l) == [t |-> "plain", list |-> l, pos |-> 0]

\* Intersect(its...) for one or more iterators: a left-leaning tree.
RECURSIVE IntersectFrom(_, _)
IntersectFrom(i1, rest) ==
    IF rest = <<>> THEN i1
    ELSE IntersectFrom([t |-> "intersect", i1 |-> i1, i2 |-> Head(rest),
                        v1 |-> 0, v2 |-> 0, e1 |-> nil, e2 |-> nil], Tail(rest))

Intersect(its) == IntersectFrom(Head(its), Tail(its))

\* Merge(its...) for one or more iterators: a left-leaning tree.
RECURSIVE MergeFrom(_, _)
MergeFrom(i1, rest) ==
    IF rest = <<>> THEN i1
    ELSE MergeFrom([t |-> "merge", i1 |-> i1, i2 |-> Head(rest),
                    v1 |-> 0, v2 |-> 0, e1 |-> nil, e2 |-> nil], Tail(rest))

Merge(its) == MergeFrom(Head(its), Tail(its))

\* ExpandIterator: Seek(0), then Next until an error; io.EOF is no error.
RECURSIVE ExpandLoop(_, _)
ExpandLoop(r, res) ==
    IF r.e = nil THEN ExpandLoop(ItNext(r.it), Append(res, r.v))
    ELSE [res |-> res, err |-> IF r.e = EOF THEN nil ELSE r.e]

ExpandIterator(it) == ExpandLoop(ItSeek(it, 0), <<>>)

\* postingsStore.Iter(k) on the snapshots skv and spb of its two read
\* transactions, lines 90-126.
IterOn(skv, spb, k) ==
    IF k \notin skv.has THEN [err |-> errNotFound, it |-> NewPlainListIterator(<<>>)]
    ELSE [err |-> nil,
          it |-> [t |-> "skip", b |-> skv.sl[k], pb |-> spb, c |-> 0,
                  has |-> FALSE, ids |-> <<>>, pos |-> 0]]

\* ------------------------------------------------- label/series dictionary
\* Strings and bucket keys and values are sequences of bytes. A bucket is a
\* function from its keys to their values.

seperator == 255

\* The label keys and values: "a", "b" and "ab".
Strs == {<<97>>, <<98>>, <<97, 98>>}

\* binary.PutUvarint
RECURSIVE PutUvarint(_)
PutUvarint(n) ==
    IF n < 128 THEN <<n>> ELSE <<128 + (n % 128)>> \o PutUvarint(n \div 128)

\* binary.Uvarint from byte i on: the value and the index of its last byte,
\* ok FALSE when the bytes end inside it.
RECURSIVE UvarintFrom(_, _)
UvarintFrom(b, i) ==
    IF i > Len(b) THEN [v |-> 0, n |-> 0, ok |-> FALSE]
    ELSE IF b[i] < 128 THEN [v |-> b[i], n |-> i, ok |-> TRUE]
    ELSE LET r == UvarintFrom(b, i + 1)
         IN  [v |-> IF r.ok THEN (b[i] - 128) + 128 * r.v ELSE 0, n |-> r.n, ok |-> r.ok]

Uvarint(b) == UvarintFrom(b, 1).v

\* The loop of series, lines 294-302: uvarints are read until the bytes end.
RECURSIVE ReadUvarints(_, _, _)
ReadUvarints(b, i, ids) ==
    IF i > Len(b) THEN [ids |-> ids, err |-> nil]
    ELSE LET r == UvarintFrom(b, i)
         IN  IF ~r.ok THEN [ids |-> ids, err |-> EOF]
             ELSE ReadUvarints(b, r.n + 1, Append(ids, r.v))

\* binary.BigEndian.PutUint64 and Uint64 for numbers below 2^31, whose high
\* four bytes are zero; Uint64 panics on fewer than 8 bytes.
PutBigEndianUint64(n) ==
    <<0, 0, 0, 0, (n \div 16777216) % 256, (n \div 65536) % 256, (n \div 256) % 256, n % 256>>

BigEndianUint64(b) ==
    IF Len(b) < 8 THEN [ok |-> FALSE, v |-> 0]
    ELSE [ok |-> TRUE, v |-> b[5] * 16777216 + b[6] * 65536 + b[7] * 256 + b[8]]

\* bytes.HasPrefix
HasPrefix(b, pre) == Len(pre) <= Len(b) /\ SubSeq(b, 1, Len(pre)) = pre

\* bytes.Split on a one-byte separator.
RECURSIVE BytesSplit(_, _, _, _)
BytesSplit(b, sep, i, cur) ==
    IF i > Len(b) THEN <<cur>>
    ELSE IF b[i] = sep THEN <<cur>> \o BytesSplit(b, sep, i + 1, <<>>)
    ELSE BytesSplit(b, sep, i + 1, Append(cur, b[i]))

\* The byte order of a bucket's keys.
RECURSIVE BytesLessFrom(_, _, _)
BytesLessFrom(a, b, i) ==
    IF i > Len(a) THEN i <= Len(b)
    ELSE IF i > Len(b) THEN FALSE
    ELSE IF a[i] # b[i] THEN a[i] < b[i]
    ELSE BytesLessFrom(a, b, i + 1)

BytesLess(a, b) == BytesLessFrom(a, b, 1)

\* bolt's Bucket.Get and Bucket.Put.
BktGet(b, k) == IF k \in DOMAIN b THEN [ok |-> TRUE, v |-> b[k]] ELSE [ok |-> FALSE, v |-> <<>>]

BktSet(b, k, v) == [x \in DOMAIN b \cup {k} |-> IF x = k THEN v ELSE b[x]]

\* seriesKey.bytes(): the big-endian 8-byte label IDs, concatenated.
RECURSIVE SkeyBytes(_)
SkeyBytes(skey) ==
    IF skey = <<>> THEN <<>> ELSE PutBigEndianUint64(Head(skey)) \o SkeyBytes(Tail(skey))

\* sort.Sort(skey): ascending.
RECURSIVE SortIds(_)
SortIds(q) ==
    IF q = <<>> THEN <<>>
    ELSE LET i == CHOOSE x \in DOMAIN q : \A y \in DOMAIN q : q[x] <= q[y]
         IN  <<q[i]>> \o SortIds(SubSeq(q, 1, i - 1) \o SubSeq(q, i + 1, Len(q)))

\* A dictionary transaction tx is [labelToID, IDToLabel, IDToSeries, seqLabel,
\* seqSeries]: three buckets and the sequences of IDToLabel and IDToSeries.

\* The bucket key ensureLabel builds, lines 368-372: the first len(key)
\* bytes are copied from val, the separator follows, then val.
LabelKey(key, val) ==
    [i \in 1..(Len(key) + Len(val) + 1) |->
        IF i <= Len(key) THEN (IF i <= Len(val) THEN val[i] ELSE 0)
        ELSE IF i = Len(key) + 1 THEN seperator
        ELSE val[i - Len(key) - 1]]

\* boltSeriesTx.ensureLabel
EnsureLabel(tx, key, val) ==
    LET k == LabelKey(key, val)
        g == BktGet(tx.labelToID, k)
        id == tx.seqLabel + 1
    IN  IF g.ok THEN [tx |-> tx, id |-> Uvarint(g.v), err |-> nil]
        ELSE [tx |-> [tx EXCEPT !.seqLabel = id,
                                !.labelToID = BktSet(@, k, PutUvarint(id)),
                                !.IDToLabel = BktSet(@, PutUvarint(id), k)],
              id |-> id, err |-> nil]

\* boltSeriesTx.label
Label(tx, id) ==
    LET g == BktGet(tx.IDToLabel, PutUvarint(id))
        p == BytesSplit(g.v, seperator, 1, <<>>)
    IN  IF ~g.ok THEN [k |-> <<>>, v |-> <<>>, err |-> errLabel]
        ELSE IF Len(p) < 2 THEN [k |-> <<>>, v |-> <<>>, err |-> errPanic]
        ELSE [k |-> p[1], v |-> p[2], err |-> nil]

\* The first loop of ensureSeries, lines 320-326, over the keys of desc in
\* the order the map yields them: lids are the label IDs in that order.
RECURSIVE EnsureLabels(_, _, _, _)
EnsureLabels(tx, desc, order, lids) ==
    IF order = <<>> THEN [tx |-> tx, lids |-> lids]
    ELSE LET r == EnsureLabel(tx, Head(order), desc[Head(order)])
         IN  EnsureLabels(r.tx, desc, Tail(order), Append(lids, r.id))

\* boltSeriesTx.ensureSeries
EnsureSeries(tx, desc, order) ==
    LET l == EnsureLabels(tx, desc, order, <<>>)
        skey == SortIds(l.lids)
        g == BktGet(l.tx.IDToSeries, SkeyBytes(skey))
        sid == l.tx.seqSeries + 1
    IN  IF g.ok THEN [tx |-> l.tx, sid |-> Uvarint(g.v), skey |-> skey, lids |-> l.lids]
        ELSE [tx |-> [l.tx EXCEPT !.seqSeries = sid,
                                  !.IDToSeries = BktSet(@, PutUvarint(sid), SkeyBytes(skey))],
              sid |-> sid, skey |-> skey, lids |-> l.lids]

\* The second loop of series, lines 304-313: m[k] = v for every label ID.
RECURSIVE SeriesLabels(_, _, _)
SeriesLabels(tx, ids, m) ==
    IF ids = <<>> THEN [m |-> m, err |-> nil]
    ELSE LET l == Label(tx, Head(ids))
         IN  IF l.err # nil THEN [m |-> <<>>, err |-> l.err]
             ELSE SeriesLabels(tx, Tail(ids), BktSet(m, l.k, l.v))

\* boltSeriesTx.series
Series(tx, sid) ==
    LET g == BktGet(tx.IDToSeries, PutUvarint(sid))
        r == ReadUvarints(g.v, 1, <<>>)
    IN  IF ~g.ok THEN [m |-> <<>>, err |-> errNotFound]
        ELSE IF r.err # nil THEN [m |-> <<>>, err |-> r.err]
        ELSE SeriesLabels(tx, r.ids, <<>>)

\* A Matcher is [key, val]: Key() is key and Match(v) holds for v = val.
MatcherKey(m) == m.key

MatcherMatch(m, v) == v = m.val

\* The loop of labels, lines 399-405, with the cursor before the keys of S.
RECURSIVE LabelsLoop(_, _, _, _)
LabelsLoop(tx, m, S, ids) ==
    IF S = {} THEN [ids |-> ids, err |-> nil]
    ELSE LET lbl == CHOOSE x \in S : \A y \in S : x = y \/ BytesLess(x, y)
             p == BytesSplit(lbl, seperator, 1, <<>>)
             id == BigEndianUint64(tx.labelToID[lbl])
         IN  IF ~HasPrefix(lbl, MatcherKey(m)) THEN [ids |-> ids, err |-> nil]
             ELSE IF Len(p) < 2 THEN [ids |-> ids, err |-> errPanic]
             ELSE IF ~MatcherMatch(m, p[2]) THEN LabelsLoop(tx, m, S \ {lbl}, ids)
             ELSE IF ~id.ok THEN [ids |-> ids, err |-> errPanic]
             ELSE LabelsLoop(tx, m, S \ {lbl}, Append(ids, id.v))

\* boltSeriesTx.labels: the cursor seeks the first key >= m.Key().
Labels(tx, m) ==
    LabelsLoop(tx, m, {k \in DOMAIN tx.labelToID : ~BytesLess(k, MatcherKey(m))}, <<>>)

\* ------------------------------------------------------------ state machine

VARIABLES
    kv,         \* the KV store's committed skiplists: [has, sl]
    pb,         \* the blob store's committed pages
    wpc,        \* the writer: "idle", or "kvCommitted" inside Append
    wpb,        \* the pages of Append's open blob-store write transaction
    lastErr,    \* what the last Append returned ("none" before the first)
    lastValid,  \* whether the batches of the current or last Append were in order
    nApp,       \* Append calls so far
    preKv,      \* kv when the current or last failed Append was called
    prePb,      \* pb when the current or last failed Append was called
    appended,   \* per key, the IDs of the Appends that returned nil, in order
    wapp,       \* appended with the current Append's batches added
    rpc,        \* the reader: "idle", "kvBegun" inside Iter, "open"
    rk,         \* the key of the reader's Iter
    rkv,        \* the snapshot of the reader's KV transaction
    rpb,        \* the snapshot of the reader's blob-store transaction
    rIdsKv,     \* appended[rk] when Iter began its KV transaction
    rIds,       \* appended[rk] when Iter returned the iterator
    nIter,      \* Iter calls so far
    rtxKv,      \* the reader's KV read transaction: "none", "open", "closed"
    rtxPb,      \* the reader's blob-store read transaction, likewise
    nClose,     \* Close calls on the reader's iterator so far
    closeRes,   \* what the iterator's last Close returned ("none" before)
    dbOpen,     \* whether the KV store postings.db is open
    pbOpen,     \* whether the blob store postings.pb is open
    closed,     \* whether the postings store's Close has returned
    labelToID,  \* the bucket label_to_id
    IDToLabel,  \* the bucket id_to_label
    IDToSeries, \* the bucket id_to_series
    seqLabel,   \* the sequence of the bucket id_to_label
    seqSeries,  \* the sequence of the bucket id_to_series
    assigned,   \* the [key, val, id] of every label ensured so far
    firstSeries,\* per label-set ensured so far, the series ID returned first
    dres,       \* the last ensure call and what it returned
    nEns,       \* ensure calls so far
    ut,         \* the iterator under test, its last call and the call's result
    sk          \* the skiplist cursor under test, its last call and the result

wvars == <<kv, pb, wpc, wpb, lastErr, lastValid, nApp, preKv, prePb, appended, wapp>>
rvars == <<rpc, rk, rkv, rpb, rIdsKv, rIds, nIter, rtxKv, rtxPb, nClose, closeRes>>
cvars == <<dbOpen, pbOpen, closed>>
dvars == <<labelToID, IDToLabel, IDToSeries, seqLabel, seqSeries, assigned, firstSeries, dres, nEns>>
uvars == <<ut, sk>>
vars == <<wvars, rvars, cvars, dvars, uvars>>

\* No iterator is under test.
NoIter == [t |-> "none"]

\* No skiplist cursor is under test.
NoCursor == [t |-> "none"]

EmptyKv == [has |-> {}, sl |-> [k \in Keys |-> <<>>]]

RECURSIVE SumLen(_, _)
SumLen(b, S) ==
    IF S = {} THEN 0
    ELSE LET k == CHOOSE x \in S : TRUE IN Len(b[k]) + SumLen(b, S \ {k})

IdSeqs == UNION {[1..n -> Ids] : n \in 0..MaxBatch}

\* The PostingsBatches an Append is called with.
Batches == {b \in [Keys -> IdSeqs] : SumLen(b, Keys) <= MaxBatch}

\* The orders in which ranging over the map may yield its keys.
Orders == {o \in [1..Cardinality(Keys) -> Keys] : \A i, j \in DOMAIN o : i # j => o[i] # o[j]}

\* The contract of Postings.Append, lines 23-26: the IDs of every key are
\* sorted and strictly greater than the IDs the key's list holds.
StrictlyAscending(l) == \A i, j \in DOMAIN l : i < j => l[i] < l[j]

InOrder(b) == \A k \in Keys : StrictlyAscending(appended[k] \o b[k])

\* The postings store after NewPostings: both stores are empty.
InitWriter ==
    /\ kv = EmptyKv
    /\ pb = <<>>
    /\ wpc = "idle"
    /\ wpb = <<>>
    /\ lastErr = "none"
    /\ lastValid = TRUE
    /\ nApp = 0
    /\ preKv = EmptyKv
    /\ prePb = <<>>
    /\ appended = [k \in Keys |-> <<>>]
    /\ wapp = [k \in Keys |-> <<>>]

\* No Iter has been called, no store is closed, the dictionary is empty and
\* no iterator is under test.
InitRest ==
    /\ rpc = "idle"
    /\ rk = CHOOSE k \in Keys : TRUE
    /\ rkv = EmptyKv
    /\ rpb = <<>>
    /\ rIdsKv = <<>>
    /\ rIds = <<>>
    /\ nIter = 0
    /\ rtxKv = "none"
    /\ rtxPb = "none"
    /\ nClose = 0
    /\ closeRes = "none"
    /\ dbOpen = TRUE
    /\ pbOpen = TRUE
    /\ closed = FALSE
    /\ labelToID = <<>>
    /\ IDToLabel = <<>>
    /\ IDToSeries = <<>>
    /\ seqLabel = 0
    /\ seqSeries = 0
    /\ assigned = {}
    /\ firstSeries = <<>>
    /\ dres = [op |-> "none"]
    /\ nEns = 0
    /\ ut = NoIter
    /\ sk = NoCursor

Init == InitWriter /\ InitRest

\* Append, lines 130-153: both write transactions begin, the batches are
\* applied, and db.Update commits the KV transaction or, on an error, rolls
\* it back, after which lines 155-158 roll the blob-store transaction back.
AppendCall(b, o) ==
    /\ wpc = "idle"
    /\ dbOpen
    /\ nApp < MaxAppends
    /\ LET r == ApplyBatches([kv |-> kv, pb |-> pb], b, o)
       IN  IF r.err # nil
           THEN /\ lastErr' = r.err
                /\ UNCHANGED <<kv, wpc, wpb, wapp>>
           ELSE /\ kv' = r.kv
                /\ wpb' = r.pb
                /\ wpc' = "kvCommitted"
                /\ wapp' = [k \in Keys |-> appended[k] \o b[k]]
                /\ UNCHANGED lastErr
    /\ lastValid' = InOrder(b)
    /\ nApp' = nApp + 1
    /\ preKv' = kv
    /\ prePb' = pb
    /\ UNCHANGED <<pb, appended, rvars, cvars, dvars, uvars>>

\* Append when the KV commit inside db.Update fails: both transactions are
\* rolled back and the error is returned.
AppendKvCommitFails(b, o) ==
    /\ wpc = "idle"
    /\ dbOpen
    /\ nApp < MaxAppends
    /\ ApplyBatches([kv |-> kv, pb |-> pb], b, o).err = nil
    /\ lastErr' = errIO
    /\ lastValid' = InOrder(b)
    /\ nApp' = nApp + 1
    /\ preKv' = kv
    /\ prePb' = pb
    /\ UNCHANGED <<kv, pb, wpc, wpb, appended, wapp, rvars, cvars, dvars, uvars>>

\* Append, lines 159-161: pbtx.Commit succeeds and Append returns nil.
AppendPbCommit ==
    /\ wpc = "kvCommitted"
    /\ pb' = wpb
    /\ wpc' = "idle"
    /\ lastErr' = nil
    /\ appended' = wapp
    /\ preKv' = kv
    /\ prePb' = wpb
    /\ UNCHANGED <<kv, wpb, lastValid, nApp, wapp, rvars, cvars, dvars, uvars>>

\* Append, lines 159-161: pbtx.Commit fails and Append returns its error.
AppendPbCommitFails ==
    /\ wpc = "kvCommitted"
    /\ wpc' = "idle"
    /\ lastErr' = errIO
    /\ wapp' = appended
    /\ wpb' = pb
    /\ UNCHANGED <<kv, pb, lastValid, nApp, preKv, prePb, appended, rvars, cvars, dvars, uvars>>

\* Iter, line 81: the KV read transaction begins.
IterBeginKv(k) ==
    /\ rpc = "idle"
    /\ dbOpen
    /\ nIter < MaxIters
    /\ rpc' = "kvBegun"
    /\ rk' = k
    /\ rkv' = kv
    /\ rtxKv' = "open"
    /\ rIdsKv' = appended[k]
    /\ nIter' = nIter + 1
    /\ UNCHANGED <<wvars, rpb, rIds, rtxPb, nClose, closeRes, cvars, dvars, uvars>>

\* Iter, lines 85-126: the blob-store read transaction begins; Iter returns
\* errNotFound for a key without a bucket, leaving both transactions as they
\* are, and the iterator otherwise.
IterBeginPb ==
    /\ rpc = "kvBegun"
    /\ rpb' = pb
    /\ rtxPb' = "open"
    /\ rpc' = IF IterOn(rkv, pb, rk).err = nil THEN "open" ELSE "idle"
    /\ rIds' = appended[rk]
    /\ UNCHANGED <<wvars, rk, rkv, rIdsKv, nIter, rtxKv, nClose, closeRes, cvars, dvars, uvars>>

\* Iter, lines 85-88: p.pb.Begin fails and Iter returns its error, leaving
\* the KV read transaction as it is.
IterBeginPbFails ==
    /\ rpc = "kvBegun"
    /\ rpc' = "idle"
    /\ UNCHANGED <<wvars, rk, rkv, rpb, rIdsKv, rIds, nIter, rtxKv, rtxPb, nClose, closeRes,
                   cvars, dvars, uvars>>

\* bolt's and pagebuf's Tx.Rollback: an open transaction is released; on a
\* transaction that is closed already it returns an error and changes nothing.
TxRollback(t) == IF t = "open" THEN "closed" ELSE t

\* The close function of lines 119-123 without its pagebufTx.Rollback().
IterCloseFuncKvOnly(tk, tp) == [kv |-> TxRollback(tk), pb |-> tp, res |-> nil]

\* The close function Iter gives its iterator, lines 119-123: both
\* transactions are rolled back, what Rollback returns is dropped, and the
\* result is nil.
IterCloseFunc(tk, tp) == [kv |-> TxRollback(tk), pb |-> TxRollback(tp), res |-> nil]

\* skippingIterator.Close, part_000 lines 192-197, on the iterator Iter
\* returned: its first call and every call after it.
IterClose ==
    /\ rpc \in {"open", "closed"}
    /\ nClose < MaxCloses
    /\ LET c == IterCloseFunc(rtxKv, rtxPb)
       IN  /\ rtxKv' = c.kv
           /\ rtxPb' = c.pb
           /\ closeRes' = c.res
    /\ rpc' = "closed"
    /\ nClose' = nClose + 1
    /\ UNCHANGED <<wvars, rk, rkv, rpb, rIdsKv, rIds, nIter, cvars, dvars, uvars>>

\* postingsStore.Close, lines 75-77: only p.db is closed. bolt's Close
\* waits for the open transactions of the KV store to end.
Close ==
    /\ dbOpen
    /\ wpc = "idle"
    /\ rtxKv # "open"
    /\ dbOpen' = FALSE
    /\ closed' = TRUE
    /\ UNCHANGED <<pbOpen, wvars, rvars, dvars, uvars>>

\* The batches of the Appends that run beside a reader.
ConcBatches == {b \in Batches : SumLen(b, Keys) <= MaxConcBatch}

Appends == \E b \in Batches, o \in Orders : AppendCall(b, o)

ConcAppends == \E b \in ConcBatches, o \in Orders : AppendCall(b, o)

AppendsKvCommitFails == \E b \in ConcBatches, o \in Orders : AppendKvCommitFails(b, o)

Iters == \E k \in Keys : IterBeginKv(k)

\* A single writer and a reader, with commits that may fail.
Next ==
    \/ ConcAppends
    \/ AppendsKvCommitFails
    \/ AppendPbCommit
    \/ AppendPbCommitFails
    \/ Iters
    \/ IterBeginPb
    \/ IterBeginPbFails
    \/ IterClose
    \/ Close

Spec == Init /\ [][Next]_vars

\* The writer alone, with commits that succeed.
NextSeq ==
    \/ Appends
    \/ AppendPbCommit

SpecSeq == Init /\ [][NextSeq]_vars

\* ---------------------------------------------------- dictionary actions

\* The write transaction of the series store on its committed buckets.
DictTx ==
    [labelToID |-> labelToID, IDToLabel |-> IDToLabel, IDToSeries |-> IDToSeries,
     seqLabel |-> seqLabel, seqSeries |-> seqSeries]

\* The label-sets ensureSeries is called with: one or two keys.
Descs == UNION {[K -> Strs] : K \in {K \in SUBSET Strs : Cardinality(K) \in 1..MaxLabels}}

\* The orders in which ranging over desc may yield its keys.
DescOrders(desc) ==
    {o \in [1..Cardinality(DOMAIN desc) -> DOMAIN desc] :
        \A i, j \in DOMAIN o : i # j => o[i] # o[j]}

\* The equality matchers labels is called with.
Matchers == [key : Strs, val : Strs]

\* ensureLabel(key, val) in a transaction that commits.
EnsureLabelCall(key, val) ==
    /\ nEns < MaxEnsures
    /\ LET r == EnsureLabel(DictTx, key, val)
       IN  /\ labelToID' = r.tx.labelToID
           /\ IDToLabel' = r.tx.IDToLabel
           /\ seqLabel' = r.tx.seqLabel
           /\ assigned' = assigned \cup {[key |-> key, val |-> val, id |-> r.id]}
           /\ dres' = [op |-> "label", key |-> key, val |-> val, id |-> r.id]
    /\ nEns' = nEns + 1
    /\ UNCHANGED <<IDToSeries, seqSeries, firstSeries, wvars, rvars, cvars, uvars>>

\* ensureSeries(desc) in a transaction that commits.
EnsureSeriesCall(desc, order) ==
    /\ nEns < MaxEnsures
    /\ LET r == EnsureSeries(DictTx, desc, order)
       IN  /\ labelToID' = r.tx.labelToID
           /\ IDToLabel' = r.tx.IDToLabel
           /\ IDToSeries' = r.tx.IDToSeries
           /\ seqLabel' = r.tx.seqLabel
           /\ seqSeries' = r.tx.seqSeries
           /\ assigned' = assigned \cup
                {[key |-> order[i], val |-> desc[order[i]], id |-> r.lids[i]] : i \in DOMAIN order}
           /\ firstSeries' = IF desc \in DOMAIN firstSeries THEN firstSeries
                             ELSE [d \in DOMAIN firstSeries \cup {desc} |->
                                      IF d = desc THEN r.sid ELSE firstSeries[d]]
           /\ dres' = [op |-> "series", desc |-> desc, sid |-> r.sid,
                       seen |-> desc \in DOMAIN firstSeries,
                       alloc |-> r.tx.seqSeries # seqSeries]
    /\ nEns' = nEns + 1
    /\ UNCHANGED <<wvars, rvars, cvars, uvars>>

EnsureLabelCalls == \E key \in Strs, val \in Strs : EnsureLabelCall(key, val)

EnsureSeriesCalls == \E desc \in Descs : \E order \in DescOrders(desc) : EnsureSeriesCall(desc, order)

\* The series dictionary alone.
NextDict ==
    \/ EnsureLabelCalls
    \/ EnsureSeriesCalls

SpecDict == Init /\ [][NextDict]_vars

\* ----------------------------------------------- iterators under test

\* The batches of the Appends that fill the store the iterators are tested on.
IterBatches == {b \in Batches : SumLen(b, Keys) <= MaxIterBatch}

\* The contract of Postings.Append for batch b on a store holding lists.
InOrderOn(lists, b) == \A k \in Keys : StrictlyAscending(lists[k] \o b[k])

\* A store after two Appends with in-order batches that returned nil, both
\* having ranged over their batches in the same order of the keys; n is the
\* number of Append calls made so far.
InitFilled(n) ==
    /\ \E b1, b2 \in IterBatches :
          LET o == CHOOSE q \in Orders : TRUE
              r1 == ApplyBatches([kv |-> EmptyKv, pb |-> <<>>], b1, o)
              r2 == ApplyBatches(r1, b2, o)
              l1 == [k \in Keys |-> b1[k]]
              l2 == [k \in Keys |-> b1[k] \o b2[k]]
          IN  /\ InOrderOn([k \in Keys |-> <<>>], b1)
              /\ InOrderOn(l1, b2)
              /\ r1.err = nil
              /\ r2.err = nil
              /\ kv = r2.kv
              /\ pb = r2.pb
              /\ appended = l2
    /\ wpc = "idle"
    /\ wpb = pb
    /\ lastErr = nil
    /\ lastValid = TRUE
    /\ nApp = n
    /\ preKv = kv
    /\ prePb = pb
    /\ wapp = appended
    /\ InitRest

\* The store the iterators are tested on: no Append follows.
InitIter == InitFilled(MaxAppends)

\* A filled store that one more Append is made on.
InitTail == InitFilled(MaxAppends - 1)

\* The writer alone on a filled store, with commits that succeed.
SpecTail == InitTail /\ [][NextSeq]_vars

\* The iterator of key k on the store, or on the list in memory; the store
\* iterator's pagebufTx.Get fails for the pages after the first f: for none,
\* or for the page stored last. Only the children of a Merge or an Intersect
\* are given such a blob store.
LeafIter(kind, k, f) ==
    IF kind = "plain" THEN NewPlainListIterator(appended[k])
    ELSE IterOn(kv, SubSeq(pb, 1, f), k).it

\* The pending error of a combinator: the non-EOF error one of its children
\* returned from the last Seek or Next the combinator called, nil if none.
ChildErr(it) ==
    IF it.t \notin {"merge", "intersect"} THEN nil
    ELSE IF it.e1 \notin {nil, EOF} THEN it.e1
    ELSE IF it.e2 \notin {nil, EOF} THEN it.e2
    ELSE nil

\* An iterator is made: of one key, or the Merge or Intersect of both keys'.
UtOpen(kind, comb, ks, f) ==
    /\ ut.t = "none"
    /\ \A i \in DOMAIN ks : ks[i] \in kv.has
    /\ (kind = "plain" \/ comb = "single") => f = Len(pb)
    /\ LET leaves == [i \in DOMAIN ks |-> LeafIter(kind, ks[i], f)]
           it == CASE comb = "single" -> leaves[1]
                   [] comb = "merge" -> Merge(leaves)
                   [] comb = "intersect" -> Intersect(leaves)
       IN  ut' = [t |-> "it", it |-> it, seek |-> 0 - 1, fwd |-> FALSE,
                  v |-> 0, e |-> nil, pend |-> nil, faulty |-> f < Len(pb),
                  afterEOF |-> FALSE]
    /\ UNCHANGED <<wvars, rvars, cvars, dvars, sk>>

\* Seek(id) on the iterator under test: seek is the id of the last Seek and
\* fwd tells whether a Seek went before it, with an id that was not larger;
\* afterEOF tells whether the call was a Next that followed a call which
\* returned io.EOF.
UtSeek(id) ==
    /\ ut.t = "it"
    /\ \E r \in {ItSeek(ut.it, id)} :
           ut' = [ut EXCEPT !.it = r.it, !.v = r.v, !.e = r.e,
                            !.fwd = (0 <= ut.seek /\ ut.seek <= id), !.seek = id,
                            !.pend = nil, !.afterEOF = FALSE]
    /\ UNCHANGED <<wvars, rvars, cvars, dvars, sk>>

\* Next() on the iterator under test: pend is the pending error of the
\* combinator when Next was called.
UtNext ==
    /\ ut.t = "it"
    /\ \E r \in {ItNext(ut.it)} :
           ut' = [ut EXCEPT !.it = r.it, !.v = r.v, !.e = r.e,
                            !.pend = ChildErr(ut.it), !.afterEOF = (ut.e = EOF)]
    /\ UNCHANGED <<wvars, rvars, cvars, dvars, sk>>

UtOpens ==
    \E kind \in {"plain", "skip"}, comb \in {"single", "merge", "intersect"},
       f \in {Len(pb)} \cup {n \in {Len(pb) - 1} : n >= 0} :
        \E ks \in (IF comb = "single" THEN [1..1 -> Keys]
                   ELSE {q \in [1..2 -> Keys] : q[1] # q[2]}) :
            UtOpen(kind, comb, ks, f)

UtSeeks == \E id \in 0..(MaxId + 1) : UtSeek(id)

\* Iterators over a filled store, called in any order.
NextIter ==
    \/ UtOpens
    \/ UtSeeks
    \/ UtNext

SpecIter == InitIter /\ [][NextIter]_vars

\* ------------------------------------------- skiplist cursors under test

\* The entries of the skiplist with the keys of K, in key order: the i-th
\* entry points to page i.
RECURSIVE EntriesOf(_, _)
EntriesOf(K, n) ==
    IF K = {} THEN <<>>
    ELSE LET d == CHOOSE x \in K : \A y \in K : x <= y
         IN  << <<d, n>> >> \o EntriesOf(K \ {d}, n + 1)

\* The skiplists the cursors are tested on: any keys from 0 to MaxId.
Skiplists == {EntriesOf(K, 1) : K \in SUBSET (0..MaxId)}

\* seek, next and append of the three implementations: the boltSkiplistCursor
\* of postings.go, the one of bolt.go, and the plainSkiplistIterator, which
\* has no append.
SkSeekOf(kind, b, k) ==
    CASE kind = "postings" -> SlSeek(b, k)
      [] kind = "bolt" -> SlSeekBolt(b, k)
      [] kind = "plain" ->
            LET r == PlainSlSeek(b, k)
            IN  [c |-> r.pos, did |-> r.did, pid |-> r.pid, err |-> r.err]

SkNextOf(kind, b, c) ==
    CASE kind = "postings" -> SlNext(b, c)
      [] kind = "bolt" -> SlNextBolt(b, c)
      [] kind = "plain" ->
            LET r == PlainSlNext(b, c)
            IN  [c |-> r.pos, did |-> r.did, pid |-> r.pid, err |-> r.err]

SkAppendOf(kind, b, d, p) ==
    CASE kind = "postings" -> SlAppend(b, d, p)
      [] kind = "bolt" -> SlAppendBolt(b, d, p)

\* A cursor is made on skiplist b: a bolt cursor on the key's bucket, or
\* newPlainSkiplistIterator on the map, whose keys it sorts.
SkNew(kind, b) ==
    /\ sk.t = "none"
    /\ sk' = [t |-> "sl", kind |-> kind, b |-> b, c |-> 0, op |-> "new", arg |-> <<>>,
              r |-> [did |-> 0, pid |-> 0, err |-> nil], pre |-> b,
              prevOp |-> "none", prevR |-> [did |-> 0, pid |-> 0, err |-> nil]]
    /\ UNCHANGED <<wvars, rvars, cvars, dvars, ut>>

\* seek(k) on the cursor under test. A panic ends the cursor's use.
SkSeek(k) ==
    /\ sk.t = "sl"
    /\ sk.r.err # errPanic
    /\ \E r \in {SkSeekOf(sk.kind, sk.b, k)} :
           sk' = [sk EXCEPT !.c = r.c, !.op = "seek", !.arg = <<k>>,
                            !.r = [did |-> r.did, pid |-> r.pid, err |-> r.err],
                            !.pre = sk.b, !.prevOp = sk.op, !.prevR = sk.r]
    /\ UNCHANGED <<wvars, rvars, cvars, dvars, ut>>

\* next() on the cursor under test.
SkNext ==
    /\ sk.t = "sl"
    /\ sk.r.err # errPanic
    /\ \E r \in {SkNextOf(sk.kind, sk.b, sk.c)} :
           sk' = [sk EXCEPT !.c = r.c, !.op = "next", !.arg = <<>>,
                            !.r = [did |-> r.did, pid |-> r.pid, err |-> r.err],
                            !.pre = sk.b, !.prevOp = sk.op, !.prevR = sk.r]
    /\ UNCHANGED <<wvars, rvars, cvars, dvars, ut>>

\* append(d, p) on a bolt cursor: c.Last() leaves the cursor on the last
\* entry the bucket had.
SkAppend(d, p) ==
    /\ sk.t = "sl"
    /\ sk.kind \in {"postings", "bolt"}
    /\ \E r \in {SkAppendOf(sk.kind, sk.b, d, p)} :
           sk' = [sk EXCEPT !.b = r.b, !.c = Len(sk.b), !.op = "append", !.arg = <<d, p>>,
                            !.r = [did |-> 0, pid |-> 0, err |-> r.err],
                            !.pre = sk.b, !.prevOp = sk.op, !.prevR = sk.r]
    /\ UNCHANGED <<wvars, rvars, cvars, dvars, ut>>

SkNews == \E kind \in {"postings", "bolt", "plain"}, b \in Skiplists : SkNew(kind, b)

SkSeeks == \E k \in 0..(MaxId + 1) : SkSeek(k)

\* The page a new entry points to is one the blob store has just added.
SkAppends ==
    /\ sk.t = "sl"
    /\ \E d \in 0..(MaxId + 1) : \E p \in {Len(sk.b) + 1, Len(sk.b) + 2} : SkAppend(d, p)

\* Skiplist cursors alone, called in any order.
NextSkiplist ==
    \/ SkNews
    \/ SkSeeks
    \/ SkNext
    \/ SkAppends

SpecSkiplist == Init /\ [][NextSkiplist]_vars

\* ------------------------------------------------------------------ claims

\* What a fresh Iter(k) on the committed stores returns.
FreshIter(k) == IterOn(kv, pb, k)

\* Seek(id) on a fresh iterator, then Next until an error.
SeekDrain(it, id) == ExpandLoop(ItSeek(it, id), <<>>)

\* The IDs of l that are at least id, in l's order.
NotBelow(l, id) == SelectSeq(l, LAMBDA x : x >= id)

\* The IDs of l that every list of ls holds too, in l's order.
InAll(l, ls) == SelectSeq(l, LAMBDA x : \A i \in DOMAIN ls : \E j \in DOMAIN ls[i] : ls[i][j] = x)

\* Whether the last Append returned, and returned an error.
AppendFailed == wpc = "idle" /\ lastErr \notin {"none", nil}

\* C1: Append is all-or-nothing: after an Append that returned an error the
\* committed skiplists of every key and the pages visible to a later
\* transaction are those of before the call.
C1_AppendAllOrNothing == AppendFailed => (kv = preKv /\ pb = prePb)

\* C2: the blob-store transaction commits before the KV transaction: the KV
\* store never shows the changes of an Append whose blob-store transaction
\* is not committed yet or has failed to commit.
C2_BlobCommitBeforeKvCommit == kv # preKv => (wpc = "idle" /\ lastErr = nil)

\* C3: readers never observe dangling skiplist entries: every entry of the
\* reader's KV snapshot names a page the reader's blob snapshot can Get.
C3_NoDanglingEntries ==
    rpc = "open" =>
        \A k \in rkv.has : \A i \in DOMAIN rkv.sl[k] : PbGet(rpb, rkv.sl[k][i][2]).ok

\* C4: snapshot isolation: an open iterator yields exactly the IDs of its
\* key that were committed when it was opened (when Iter began, or when it
\* returned), whatever Appends run meanwhile.
C4_IteratorSnapshot ==
    rpc = "open" =>
        LET r == ExpandIterator(IterOn(rkv, rpb, rk).it)
        IN  r.err = nil /\ r.res \in {rIdsKv, rIds}

\* C5: after Appends that returned nil, ExpandIterator(Iter(k)) returns
\* exactly the IDs appended to k, in append order, each once.
C5_ExpandReturnsAppended ==
    wpc = "idle" =>
        \A k \in Keys :
            appended[k] # <<>> =>
                /\ FreshIter(k).err = nil
                /\ ExpandIterator(FreshIter(k).it) = [res |-> appended[k], err |-> nil]

\* C5's case: a list that began with a one-ID batch (its first skiplist key
\* is 0), whose second batch filled that tail page and rolled over into a
\* second page, and that expands to the three or more IDs appended.
C5_Witness ==
    /\ wpc = "idle"
    /\ lastErr = nil
    /\ \E k \in Keys :
        /\ Len(kv.sl[k]) >= 2
        /\ kv.sl[k][1][1] = 0
        /\ Len(pb[kv.sl[k][1][2]]) = PageCap
        /\ Len(appended[k]) > PageCap
        /\ ExpandIterator(FreshIter(k).it).res = appended[k]

\* C6: on a strictly ascending list written by Append, a fresh Seek(id)
\* returns the smallest stored ID >= id and the Next calls after it return
\* all larger IDs in ascending order, then io.EOF.
C6_SeekReturnsSmallestNotBelow ==
    wpc = "idle" =>
        \A k \in Keys :
            (appended[k] # <<>> /\ StrictlyAscending(appended[k])) =>
                \A id \in 0..(MaxId + 1) :
                    SeekDrain(FreshIter(k).it, id) =
                        [res |-> NotBelow(appended[k], id), err |-> nil]

\* C7: monotonic postings: after any Append calls the IDs that iterating a
\* key yields are strictly ascending.
C7_IterationStrictlyAscending ==
    wpc = "idle" =>
        \A k \in kv.has : StrictlyAscending(ExpandIterator(FreshIter(k).it).res)

\* C8: out-of-order rejected: an Append with a batch that is not strictly
\* ascending, or that does not start above the key's IDs, returns
\* errOutOfOrder and nothing of it becomes visible.
C8_OutOfOrderRejected ==
    ~lastValid => (wpc = "idle" /\ lastErr = errOutOfOrder /\ kv = preKv /\ pb = prePb)

\* C9: an Append whose batches are all in order succeeds, wherever in a
\* batch a page overflows.
C9_InOrderBatchSucceeds == (wpc = "idle" /\ nApp > 0 /\ lastValid) => lastErr = nil

\* C10: Intersect = set intersection: expanding the Intersect of the store
\* iterators of one or more strictly ascending lists returns the IDs that
\* all the lists hold, ascending, each once.
C10_IntersectIsSetIntersection ==
    wpc = "idle" =>
        \A ks \in UNION {[1..n -> Keys] : n \in 1..Cardinality(Keys)} :
            (\A i \in DOMAIN ks : appended[ks[i]] # <<>> /\ StrictlyAscending(appended[ks[i]])) =>
                ExpandIterator(Intersect([i \in DOMAIN ks |-> FreshIter(ks[i]).it])) =
                    [res |-> InAll(appended[ks[1]], [i \in DOMAIN ks |-> appended[ks[i]]]),
                     err |-> nil]

\* C13: idempotent ensure: ensureSeries on a label-set that was ensured
\* before returns the series ID it returned the first time and allocates no
\* new series ID.
C13_EnsureSeriesIdempotent ==
    (dres.op = "series" /\ dres.seen) =>
        (dres.sid = firstSeries[dres.desc] /\ ~dres.alloc)

\* C14: round-trip dictionary: series(sid) of the ID that ensureSeries(L)
\* returned is exactly the keys and values of L.
C14_SeriesRoundTrip ==
    dres.op = "series" => Series(DictTx, dres.sid) = [m |-> dres.desc, err |-> nil]

\* C15: label bijection: equal (key, value) pairs have the same label ID,
\* different pairs have different label IDs, and label(id) is the pair the ID
\* was assigned to.
C15_LabelBijection ==
    /\ \A t1, t2 \in assigned :
          (t1.id = t2.id) <=> (t1.key = t2.key /\ t1.val = t2.val)
    /\ \A t \in assigned : Label(DictTx, t.id) = [k |-> t.key, v |-> t.val, err |-> nil]

\* C16: labels(m) returns exactly the label IDs assigned to the labels whose
\* key equals m.Key() and whose value satisfies m.Match, each once.
C16_LabelsResolvesMatcher ==
    \A m \in Matchers :
        LET r == Labels(DictTx, m)
            want == {t.id : t \in {x \in assigned : x.key = MatcherKey(m) /\ MatcherMatch(m, x.val)}}
        IN  /\ r.err = nil
            /\ {r.ids[i] : i \in DOMAIN r.ids} = want
            /\ Len(r.ids) = Cardinality(want)

\* C17: after the postings store's Close has returned both stores are
\* closed: the KV store and the paged blob store.
C17_CloseClosesBothStores == closed => (~dbOpen /\ ~pbOpen)

\* C18: Close on an iterator that Iter returned rolls back both read
\* transactions and is idempotent: after one Close or more both transactions
\* are released and the last Close returned nil.
C18_IteratorCloseIdempotent ==
    nClose > 0 => (rtxKv = "closed" /\ rtxPb = "closed" /\ closeRes = nil)

\* C18's case: the iterator was closed a second time.
C18_Witness ==
    nClose = MaxCloses /\ MaxCloses >= 2 /\ rpc = "closed" /\ rtxKv = "closed" /\ rtxPb = "closed"

\* The IDs in the pages of the skiplist entries b[i..], in the entries' order.
RECURSIVE PagesFrom(_, _, _)
PagesFrom(b, pages, i) ==
    IF i > Len(b) THEN <<>>
    ELSE PbGet(pages, b[i][2]).data \o PagesFrom(b, pages, i + 1)

\* C19: errPageFull never escapes the postings store: no Append returns it,
\* and a full page is stored and the ID that met it goes on in a new page,
\* so that the pages of a key hold all IDs appended to it, in order.
C19_PageFullNeverEscapes ==
    /\ lastErr # errPageFull
    /\ wpc = "idle" => \A k \in Keys : PagesFrom(kv.sl[k], pb, 1) = appended[k]

\* C19's case: an Append that met a full page returned nil, and the key's
\* list went on in a second page.
C19_Witness ==
    /\ wpc = "idle"
    /\ lastErr = nil
    /\ \E k \in Keys :
        /\ Len(kv.sl[k]) >= 2
        /\ Len(pb[kv.sl[k][1][2]]) = PageCap
        /\ kv.sl[k][1][1] # 0

\* The elements of the set S in ascending order.
RECURSIVE Ascending(_)
Ascending(S) ==
    IF S = {} THEN <<>>
    ELSE LET x == CHOOSE y \in S : \A z \in S : y <= z
         IN  <<x>> \o Ascending(S \ {x})

\* The set of the IDs of the lists ls.
IdsOf(ls) == UNION {{ls[i][j] : j \in DOMAIN ls[i]} : i \in DOMAIN ls}

\* One to MaxMerged keys, a key as often as one likes.
KeySeqs == UNION {[1..n -> Keys] : n \in 1..MaxMerged}

\* C11: Merge = set union with dedup: expanding the Merge of one or more
\* iterators over strictly ascending lists, store iterators or in-memory
\* ones, returns the sorted union of the lists, each ID once.
C11_MergeIsSortedUnion ==
    wpc = "idle" =>
        \A ks \in KeySeqs :
            (\A i \in DOMAIN ks : StrictlyAscending(appended[ks[i]])) =>
                LET want == [res |-> Ascending(IdsOf([i \in DOMAIN ks |-> appended[ks[i]]])),
                             err |-> nil]
                IN  /\ ExpandIterator(Merge([i \in DOMAIN ks |->
                            NewPlainListIterator(appended[ks[i]])])) = want
                    /\ (\A i \in DOMAIN ks : ks[i] \in kv.has) =>
                            ExpandIterator(Merge([i \in DOMAIN ks |-> FreshIter(ks[i]).it])) = want

\* C11's case: two keys with different multi-page lists that share an ID, of
\* which the Merge of the store iterators is their union.
C11_Witness ==
    /\ wpc = "idle"
    /\ \E k1, k2 \in Keys :
        /\ k1 # k2
        /\ StrictlyAscending(appended[k1]) /\ StrictlyAscending(appended[k2])
        /\ Len(kv.sl[k1]) >= 2
        /\ Len(appended[k2]) >= 2
        /\ IdsOf(<<appended[k1]>>) \cap IdsOf(<<appended[k2]>>) # {}
        /\ IdsOf(<<appended[k1]>>) \ IdsOf(<<appended[k2]>>) # {}
        /\ IdsOf(<<appended[k2]>>) \ IdsOf(<<appended[k1]>>) # {}
        /\ ExpandIterator(Merge(<<FreshIter(k1).it, FreshIter(k2).it>>)).res =
               Ascending(IdsOf(<<appended[k1], appended[k2]>>))

\* C12: Seek monotonic: after Seek(a), any Next calls and Seek(b) with
\* a <= b, the value Seek(b) returns and the value every later Next
\* returns is >= b, for every kind of iterator.
C12_SeekMonotonic ==
    (ut.t = "it" /\ ut.fwd /\ ut.e = nil) => ut.v >= ut.seek

\* The same for the iterators whose blob store reads every page: this holds.
SeekMonotonicWithoutFaults ==
    (ut.t = "it" /\ ~ut.faulty /\ ut.fwd /\ ut.e = nil) => ut.v >= ut.seek

\* C20: error propagation in combinators: when a child of a Merge or an
\* Intersect has returned a non-EOF error, the combinator's next Next
\* returns that error and no value.
C20_CombinatorReturnsChildError ==
    (ut.t = "it" /\ ut.pend # nil) => (ut.e = ut.pend /\ ut.v = 0)

\* The largest ID of a page.
PageMax(pg) == CHOOSE x \in {pg[i] : i \in DOMAIN pg} : \A i \in DOMAIN pg : pg[i] <= x

\* C21: skiplist entry invariant: after every committed Append and for every
\* key, the entries are ordered by key and each entry's key is the largest
\* ID of the page it references, whether the page was stored on rollover,
\* as the last page of a batch, or was a tail page a later batch extended.
C21_SkiplistEntryInvariant ==
    (wpc = "idle" /\ lastErr = nil) =>
        \A k \in Keys :
            LET b == kv.sl[k]
            IN  /\ \A i, j \in DOMAIN b : i < j => b[i][1] < b[j][1]
                /\ \A i \in DOMAIN b :
                      /\ PbGet(pb, b[i][2]).ok
                      /\ PbGet(pb, b[i][2]).data # <<>>
                      /\ b[i][1] = PageMax(PbGet(pb, b[i][2]).data)

\* The index of the entry of b that seek(k) is to return: the first entry
\* with a key >= k, its predecessor if that key is above k and it has one,
\* the last entry if k is above every key.
SeekEntry(b, k) ==
    LET S == {i \in DOMAIN b : b[i][1] >= k}
        j == IF S = {} THEN Len(b) ELSE CHOOSE i \in S : \A x \in S : i <= x
    IN  IF b[j][1] > k /\ j > 1 THEN j - 1 ELSE j

\* The index of the entry of b with key d.
EntryAt(b, d) == CHOOSE i \in DOMAIN b : b[i][1] = d

\* What seek and the next after it are to return on the cursor under test.
SeekAndNextAsSpecified ==
    /\ sk.op = "seek" =>
          IF sk.b = <<>> THEN sk.r.err = EOF
          ELSE LET e == sk.b[SeekEntry(sk.b, sk.arg[1])]
               IN  sk.r = [did |-> e[1], pid |-> e[2], err |-> nil]
    /\ (sk.op = "next" /\ sk.prevOp = "seek" /\ sk.prevR.err = nil) =>
          LET i == EntryAt(sk.b, sk.prevR.did)
          IN  IF i < Len(sk.b)
              THEN sk.r = [did |-> sk.b[i + 1][1], pid |-> sk.b[i + 1][2], err |-> nil]
              ELSE sk.r.err = EOF

\* C22: skiplist seek(target), for the boltSkiplistCursor and the
\* plainSkiplistIterator and any target: on a non-empty skiplist it never
\* fails and returns the first entry with key >= target, or its predecessor
\* if that key is above the target and a predecessor exists, or the last
\* entry when the target is above every key; it returns EOF only on an
\* empty skiplist; and the next() that follows returns the entry after the
\* one seek returned.
C22_SkiplistSeek ==
    (sk.t = "sl" /\ sk.kind \in {"postings", "plain"}) => SeekAndNextAsSpecified

\* The same for the boltSkiplistCursor of postings.go alone: this holds.
SkiplistSeekOfPostingsCursor ==
    (sk.t = "sl" /\ sk.kind = "postings") => SeekAndNextAsSpecified

\* The same for the plainSkiplistIterator and targets that some key
\* reaches: this holds.
SkiplistSeekOfPlainWithinKeys ==
    (sk.t = "sl" /\ sk.kind = "plain" /\ sk.r.err # errPanic) =>
        SeekAndNextAsSpecified

\* The entries of skiplist b, as a set.
EntrySet(b) == {b[i] : i \in DOMAIN b}

\* What append(d, p) is to return and to leave behind on the cursor under test.
AppendAsSpecified ==
    sk.op = "append" =>
        LET d == sk.arg[1]
            p == sk.arg[2]
        IN  IF \E i \in DOMAIN sk.pre : sk.pre[i][1] >= d
            THEN sk.r.err = errOutOfOrder /\ sk.b = sk.pre
            ELSE /\ sk.r.err = nil
                 /\ EntrySet(sk.b) = EntrySet(sk.pre) \cup {<<d, p>>}
                 /\ Len(sk.b) = Len(sk.pre) + 1

\* C23: skiplist append(d, p): if some existing entry has a key >= d it
\* fails with errOutOfOrder and leaves the skiplist unchanged; otherwise the
\* skiplist afterwards holds exactly the previous entries and one entry
\* with key d and value p.
C23_SkiplistAppend == (sk.t = "sl" /\ sk.kind \in {"postings", "bolt"}) => AppendAsSpecified

\* The same for the boltSkiplistCursor of postings.go alone: this holds.
SkiplistAppendOfPostingsCursor == (sk.t = "sl" /\ sk.kind = "postings") => AppendAsSpecified

\* The pages that were tail pages of the keys the Append in progress has a
\* batch for, when the Append began.
TailPagesOfBatch ==
    {preKv.sl[k][Len(preKv.sl[k])][2] :
        k \in {x \in Keys : preKv.sl[x] # <<>> /\ wapp[x] # appended[x]}}

\* C24: only the tail page is mutated: an Append changes, of the pages that
\* existed, none but the tail pages of its batches' keys; the pages of
\* earlier skiplist entries and of keys without a batch keep their bytes,
\* and the skiplist entries of non-tail pages are neither changed nor
\* removed.
C24_OnlyTailPageMutated ==
    wpc = "kvCommitted" =>
        /\ Len(wpb) >= Len(prePb)
        /\ \A pid \in DOMAIN prePb : pid \notin TailPagesOfBatch => wpb[pid] = prePb[pid]
        /\ \A k \in Keys :
              /\ Len(kv.sl[k]) >= Len(preKv.sl[k])
              /\ \A i \in DOMAIN preKv.sl[k] :
                    (i < Len(preKv.sl[k]) \/ wapp[k] = appended[k]) =>
                        kv.sl[k][i] = preKv.sl[k][i]

\* C24's case: a key with two pages whose tail page an Append has extended,
\* beside a key with a page and no batch.
C24_Witness ==
    /\ wpc = "kvCommitted"
    /\ \E k1, k2 \in Keys :
        /\ k1 # k2
        /\ Len(preKv.sl[k1]) >= 2
        /\ wapp[k1] # appended[k1]
        /\ wpb[preKv.sl[k1][Len(preKv.sl[k1])][2]] # prePb[preKv.sl[k1][Len(preKv.sl[k1])][2]]
        /\ preKv.sl[k2] # <<>>
        /\ wapp[k2] = appended[k2]

\* C25: Iter releases what it begins: when Iter has returned an error (the
\* blob store's Begin failed, or the key has no postings list), every read
\* transaction it had begun is rolled back, so that none stays open without
\* an iterator whose Close releases it.
C25_IterReleasesOnError ==
    (rpc = "idle" /\ nIter > 0) => (rtxKv # "open" /\ rtxPb # "open")

\* C26: EOF is sticky: for every kind of iterator, once Next or Seek has
\* returned io.EOF, every further Next without a Seek between returns
\* io.EOF again, never a value or another error.
C26_EOFSticky == (ut.t = "it" /\ ut.afterEOF) => ut.e = EOF

\* The same for the plain list iterator, Merge and Intersect, whatever
\* their children are: this holds.
EOFStickyButForSkipping ==
    (ut.t = "it" /\ ut.it.t # "skip" /\ ut.afterEOF) => ut.e = EOF

====
